---- MODULE Spec2Model ----
(***************************************************************************)
(* Coordination layer of the local multi-agent research demo:              *)
(*   - AgentCoordinator.calculate_execution_order (core/communication.py)  *)
(*   - ResilientAgentWrapper (core/resilience.py)                          *)
(*   - PromptCache (core/dynamic.py)                                       *)
(*   - AgentCommunicationProtocol (core/communication.py)                  *)
(*   - websocket_endpoint (app.py)                                         *)
(*   - ProductionOrchestrator.research (orchestrator_enhanced.py)          *)
(*   - the trend of a worker (base.py, core/memory.py)                     *)
(* Each component has its own specification (SpecPlan, SpecRes, SpecCache, *)
(* SpecProto, SpecApp, SpecOrch, SpecTrend); the variables of the other    *)
(* components stay at their initial values.                                *)
(***************************************************************************)
EXTENDS Integers, Sequences, FiniteSets, TLC

VARIABLES
    \* ---- AgentCoordinator ----
    agent_dependencies,  \* dict agent name -> list of agent names
    requested_agents,    \* argument of the running calculate_execution_order
    graph,               \* local: dict built at lines 184-186
    stack,               \* local: DFS post-order, consumed by the grouping
    positioned,          \* local: set of agents already put in a level
    levels,              \* local / return value: list of lists
    cpc,                 \* position: "idle", "grouping", "done"
    \* ---- ResilientAgentWrapper ----
    now,                 \* datetime.now(), in seconds
    agent,               \* the wrapped agent: [role, timeout]
    error_history,       \* list of the timestamps of the error records
                         \* (their "error" text is never read)
    circuit_open,        \* bool
    circuit_opened_at,   \* None or a time
    rpc,                 \* position in run_with_resilience: "idle",
                         \* "running" (await agent.run), "sleeping" (await
                         \* asyncio.sleep), "returned"
    attempt,             \* loop variable of line 37
    original_timeout,    \* local of line 35
    validation_fn,       \* argument: "none" or "fn"
    ret,                 \* what the last call gave its caller:
                         \* [kind, value, raised]
    unit_output,         \* result of the agent.run that ended the call
    invocations,         \* agent.run invocations of the current call
    failed,              \* failed attempts of this call so far
    streak,              \* times of the failure records since the last success
    calls,               \* calls made so far
    ticks,               \* clock advances so far
    \* ---- PromptCache ----
    cache,               \* dict key -> entry, as the list of its entries in
                         \* insertion order
    access_counts,       \* dict key -> int
    success_rates,       \* dict key -> [count, success_sum, quality_sum]
    last,                \* the last get or store: its arguments and result
    stores,              \* store calls so far
    gets,                \* get calls so far
    \* ---- AgentCommunicationProtocol ----
    global_context,      \* dict key -> value
    glast,               \* the last set/get_global_context: arguments, result
    shared_context,      \* dict to_agent -> timestamp of the handoff stored for it
    conversation_history, \* the list of audit entries, oldest first
    \* ---- app.py: websocket_endpoint ----
    is_processing,       \* the module-level flag
    connections,         \* the set of accepted websockets
    handler,             \* websocket -> position of its handler: "none",
                         \* "receive" (awaiting receive_json) or "research"
                         \* (awaiting demo.research_with_streaming)
    wlast,               \* the last thing a handler did
    \* ---- ProductionOrchestrator.research ----
    use_enhanced,        \* argument of the constructor
    opc,                 \* position of the research coroutine
    research_query,               \* arguments of the running call
    mode,
    analysis,            \* local: what the analysis step produced
    agents_requested,    \* local
    execution_levels,    \* local: the levels the coordinator returned
    level,               \* local: index of the level being executed
    tasks,               \* local: worker -> state of its task in the gather
    seen,                \* worker -> the findings its task found when it started
    findings,            \* local: worker -> kind of text recorded for it
    events,              \* what the stream callback received in this call
    outcome,             \* what the call returned or raised
    memories,            \* the rows of the memory store, oldest first
    analysis_prompts,    \* queries stored in the prompt cache by line 117
    skip_warned,              \* workers whose handoff in shared_context has a
                         \* warning with "skip"
    researches,          \* research calls so far
    websites_explored,   \* the global fact "websites_explored" of the hub
    websites,            \* local: the list read at line 225 for the synthesis
    \* ---- trend of a worker ----
    execution_history,   \* success flags of the worker's executions, oldest
                         \* first
    tlast                \* the last trend computed: by which function, result

varsPlan == <<agent_dependencies, requested_agents, graph, stack, positioned,
              levels, cpc>>

varsRes == <<now, agent, error_history, circuit_open, circuit_opened_at, rpc,
             attempt, original_timeout, validation_fn, ret, unit_output,
             invocations, failed, streak, calls, ticks>>

varsCache == <<cache, access_counts, success_rates, last, stores, gets>>

varsProto == <<global_context, glast, shared_context, conversation_history>>

varsApp == <<is_processing, connections, handler, wlast>>

varsOrch == <<use_enhanced, opc, research_query, mode, analysis, agents_requested,
              execution_levels, level, tasks, seen, findings, events, outcome,
              memories, analysis_prompts, skip_warned, researches,
              websites_explored, websites>>

varsTrend == <<execution_history, tlast>>

varsMore == <<varsProto, varsApp, varsOrch, varsTrend>>

vars == <<varsPlan, varsRes, varsCache, varsMore>>

\* ------------------------------------------------------------------------
\* Generic helpers
\* ------------------------------------------------------------------------
Range(s) == {s[i] : i \in 1..Len(s)}

\* python: list.remove(x) removes the first occurrence of x
RECURSIVE ListRemove(_, _)
ListRemove(s, x) ==
    IF s = <<>> THEN <<>>
    ELSE IF Head(s) = x THEN Tail(s)
    ELSE <<Head(s)>> \o ListRemove(Tail(s), x)

\* all sequences over S of length at most n
SeqsUpTo(S, n) == UNION {[1..k -> S] : k \in 0..n}

\* sequences without repeated elements
NoRepeat(s) == \A i, j \in 1..Len(s) : i # j => s[i] # s[j]

\* ------------------------------------------------------------------------
\* AgentCoordinator
\* ------------------------------------------------------------------------
\* worker names used by ProductionOrchestrator (three of them keep the
\* dependency maps enumerable)
Agents == {"Domain Specialist", "Web Harvester", "Fact Validator"}

MaxDeps == 2        \* longest depends_on list passed to set_dependencies
MaxRequested == 3   \* longest requested_agents list

DepLists == {s \in SeqsUpTo(Agents, MaxDeps) : NoRepeat(s)}

\* python: dict.get(agent, [])
DictGet(d, k) == IF k \in DOMAIN d THEN d[k] ELSE <<>>

\* lines 184-186: graph[agent] = self.agent_dependencies.get(agent, [])
BuildGraph(req, deps) == [a \in Range(req) |-> DictGet(deps, a)]

\* lines 192-199 with the dependency test of line 197 dropped
RECURSIVE visitAllDeps(_, _, _, _)
RECURSIVE visitDepsAll(_, _, _, _, _)
visitAllDeps(name, g, req, st) ==
    IF name \in st.visited THEN st
    ELSE LET st1 == [st EXCEPT !.visited = @ \cup {name}]
             st2 == visitDepsAll(DictGet(g, name), 1, g, req, st1)
         IN  [st2 EXCEPT !.stack = Append(@, name)]
visitDepsAll(deps, i, g, req, st) ==
    IF i > Len(deps) THEN st
    ELSE visitDepsAll(deps, i + 1, g, req, visitAllDeps(deps[i], g, req, st))

\* lines 192-199: def visit(agent); st = [visited, stack]
RECURSIVE visit(_, _, _, _)
RECURSIVE visitDeps(_, _, _, _, _)
visit(name, g, req, st) ==
    IF name \in st.visited THEN st
    ELSE LET st1 == [st EXCEPT !.visited = @ \cup {name}]
             st2 == visitDeps(DictGet(g, name), 1, g, req, st1)
         IN  [st2 EXCEPT !.stack = Append(@, name)]
\* lines 196-198: for dep in graph.get(agent, []): if dep in requested: visit
visitDeps(deps, i, g, req, st) ==
    IF i > Len(deps) THEN st
    ELSE IF deps[i] \in Range(req)
         THEN visitDeps(deps, i + 1, g, req, visit(deps[i], g, req, st))
         ELSE visitDeps(deps, i + 1, g, req, st)

\* lines 201-202: for agent in requested_agents: visit(agent)
RECURSIVE visitAll(_, _, _, _)
visitAll(i, g, req, st) ==
    IF i > Len(req) THEN st
    ELSE visitAll(i + 1, g, req, visit(req[i], g, req, st))

\* line 212: all(dep in positioned or dep not in requested_agents ...)
DepsSatisfied(name, g, req, pos) ==
    \A k \in 1..Len(DictGet(g, name)) :
        \/ DictGet(g, name)[k] \in pos
        \/ DictGet(g, name)[k] \notin Range(req)

\* lines 209-215: one pass of "for agent in stack[:]" over the copy `snap`;
\* st = [level, stack, positioned], updated as the pass goes
RECURSIVE LevelPass(_, _, _, _, _)
LevelPass(snap, i, g, req, st) ==
    IF i > Len(snap) THEN st
    ELSE IF DepsSatisfied(snap[i], g, req, st.positioned)
         THEN LevelPass(snap, i + 1, g, req,
                        [level |-> Append(st.level, snap[i]),
                         stack |-> ListRemove(st.stack, snap[i]),
                         positioned |-> st.positioned \cup {snap[i]}])
         ELSE LevelPass(snap, i + 1, g, req, st)

\* AgentCoordinator.__init__, lines 172-175
InitPlanVars ==
    /\ agent_dependencies = <<>>
    /\ requested_agents = <<>>
    /\ graph = <<>>
    /\ stack = <<>>
    /\ positioned = {}
    /\ levels = <<>>
    /\ cpc = "idle"

\* lines 177-179; the orchestrator declares the dependencies at construction
\* (_setup_dependencies), before any plan is computed
set_dependencies(agent_name, depends_on) ==
    /\ cpc = "idle"
    /\ agent_dependencies' =
         [a \in DOMAIN agent_dependencies \cup {agent_name} |->
             IF a = agent_name THEN depends_on ELSE agent_dependencies[a]]
    /\ UNCHANGED <<requested_agents, graph, stack, positioned, levels, cpc>>
    /\ UNCHANGED <<varsRes, varsCache, varsMore>>

\* lines 181-206: entry of calculate_execution_order up to the while loop
calculate_execution_order(req) ==
    /\ cpc = "idle"
    /\ requested_agents' = req
    /\ graph' = BuildGraph(req, agent_dependencies)
    /\ stack' = visitAll(1, BuildGraph(req, agent_dependencies), req,
                         [visited |-> {}, stack |-> <<>>]).stack
    /\ levels' = <<>>
    /\ positioned' = {}
    /\ cpc' = "grouping"
    /\ UNCHANGED agent_dependencies
    /\ UNCHANGED <<varsRes, varsCache, varsMore>>

\* lines 208-217: one iteration of "while stack"
GroupLevel ==
    /\ cpc = "grouping"
    /\ stack # <<>>
    /\ LET st == LevelPass(stack, 1, graph, requested_agents,
                           [level |-> <<>>, stack |-> stack,
                            positioned |-> positioned])
       IN  /\ stack' = st.stack
           /\ positioned' = st.positioned
           /\ levels' = IF st.level # <<>> THEN Append(levels, st.level)
                        ELSE levels
    /\ UNCHANGED <<agent_dependencies, requested_agents, graph, cpc>>
    /\ UNCHANGED <<varsRes, varsCache, varsMore>>

\* line 219: return levels
ReturnLevels ==
    /\ cpc = "grouping"
    /\ stack = <<>>
    /\ cpc' = "done"
    /\ UNCHANGED <<agent_dependencies, requested_agents, graph, stack,
                   positioned, levels>>
    /\ UNCHANGED <<varsRes, varsCache, varsMore>>

\* the caller (ProductionOrchestrator.research) walks the returned levels
\* and drops them; the locals of the call are gone
DiscardLevels ==
    /\ cpc = "done"
    /\ requested_agents' = <<>>
    /\ graph' = <<>>
    /\ stack' = <<>>
    /\ positioned' = {}
    /\ levels' = <<>>
    /\ cpc' = "idle"
    /\ UNCHANGED agent_dependencies
    /\ UNCHANGED <<varsRes, varsCache, varsMore>>

NextPlan ==
    \/ \E a \in Agents, d \in DepLists : set_dependencies(a, d)
    \/ \E req \in SeqsUpTo(Agents, MaxRequested) : calculate_execution_order(req)
    \/ GroupLevel
    \/ ReturnLevels
    \/ DiscardLevels

\* ------------------------------------------------------------------------
\* ResilientAgentWrapper
\* ------------------------------------------------------------------------
\* circuit_opened_at = None (times are never negative)
None == 0 - 1

retry_count == 3                    \* __init__ default
timeout_multiplier_num == 3         \* timeout_multiplier = 1.5 = 3 / 2
timeout_multiplier_den == 2
circuit_breaker_threshold == 5
circuit_breaker_reset_time == 300
error_window == 600                 \* "last 10 minutes"
seconds_per_day == 86400            \* timedelta.seconds is the part below a day

MaxCalls == 3      \* run_with_resilience calls in one behaviour
MaxTicks == 1      \* clock advances in one behaviour

\* how far the clock moves between two steps of the program
TimeSteps == {circuit_breaker_reset_time + 1, seconds_per_day}

\* the agents ProductionOrchestrator wraps, by role and base timeout
WrappedAgents == {[role |-> "orchestrator", timeout |-> 360],
                  [role |-> "researcher", timeout |-> 90],
                  [role |-> "auditor", timeout |-> 240]}

\* texts the unit can produce, as lists of characters: empty, plain text,
\* text around a JSON object, braces around something that is not JSON
Outputs == {<<>>, <<"t">>, <<"t", "{", "}", "t">>, <<"{", "t", "}">>}

\* exceptions the unit or the validation function can raise (subclasses of
\* Exception)
Exceptions == {"TimeoutError", "ValueError"}

Pow(b, e) == IF e = 0 THEN 1 ELSE IF e = 1 THEN b ELSE IF e = 2 THEN b * b
             ELSE b * b * b

\* line 40: int(original_timeout * (self.timeout_multiplier ** attempt))
AttemptTimeout(orig, att) ==
    (orig * Pow(timeout_multiplier_num, att)) \div Pow(timeout_multiplier_den, att)

\* lines 65 and 75 with only the first except clause
ExceptClauseTimeoutOnly(exc) ==
    IF exc = "TimeoutError" THEN "timeout" ELSE "propagate"

\* lines 65 and 75: which except clause takes an exception raised in the try
ExceptClause(exc) ==
    IF exc = "TimeoutError" THEN "timeout" ELSE "error"

\* lines 124-157: the fallback table, reason -> role -> text
fallbacks ==
    [timeout |-> [orchestrator |-> <<"timeout/orchestrator">>,
                  researcher |-> <<"timeout/researcher">>,
                  validator |-> <<"timeout/validator">>,
                  default |-> <<"timeout/default">>],
     error |-> [orchestrator |-> <<"error/orchestrator">>,
                default |-> <<"error/default">>],
     circuit_breaker |-> [default |-> <<"circuit_breaker/default">>],
     max_retries |-> [default |-> <<"max_retries/default">>]]

\* lines 159-160
get_fallback_response(reason, role) ==
    LET fallback_set == IF reason \in DOMAIN fallbacks THEN fallbacks[reason]
                        ELSE fallbacks["error"]
    IN  IF role \in DOMAIN fallback_set THEN fallback_set[role]
        ELSE IF "default" \in DOMAIN fallback_set THEN fallback_set["default"]
        ELSE <<"Fallback response">>

\* line 109: re.search(r'\{[^{}]*\}', result): the leftmost "{" that is
\* closed by a "}" with no brace in between, as [found, from, to]
JsonMatch(result) ==
    LET closes(i, j) == /\ result[i] = "{"
                        /\ result[j] = "}"
                        /\ \A k \in (i + 1)..(j - 1) : result[k] \notin {"{", "}"}
        starts == {i \in 1..Len(result) : \E j \in (i + 1)..Len(result) : closes(i, j)}
    IN  IF starts = {} THEN [found |-> FALSE, from |-> 0, to |-> 0]
        ELSE LET i == CHOOSE x \in starts : \A y \in starts : x <= y
                 j == CHOOSE y \in (i + 1)..Len(result) : closes(i, y)
             IN  [found |-> TRUE, from |-> i, to |-> j]

\* line 112: json.loads accepts the fragment; over the characters of Outputs
\* only "{}" is a JSON object
JsonLoads(fragment) == fragment = <<"{", "}">>

\* lines 100-118
handle_validation_failure(result) ==
    LET m == JsonMatch(result)
        warned == <<"[Warning: Response format validation failed]\n">> \o result
    IN  IF "{" \in Range(result) /\ "}" \in Range(result) /\ m.found
        THEN IF JsonLoads(SubSeq(result, m.from, m.to))
             THEN SubSeq(result, m.from, m.to)
             ELSE warned
        ELSE warned

\* lines 162-178 with the threshold test written as ">"
record_error_strict(hist, t) ==
    LET appended == Append(hist, t)
        kept == SelectSeq(appended, LAMBDA e : e > t - error_window)
    IN  [error_history |-> kept,
         opens |-> Len(kept) > circuit_breaker_threshold]

\* lines 162-178: _record_error at time t; opens = _open_circuit is called
record_error(hist, t) ==
    LET appended == Append(hist, t)
        kept == SelectSeq(appended, LAMBDA e : e > t - error_window)
    IN  [error_history |-> kept,
         opens |-> Len(kept) >= circuit_breaker_threshold]

\* lines 186-193 without the clear of the history
reset_circuit_breaker_keep(hist, open, opened_at) ==
    [error_history |-> hist,
     circuit_open |-> FALSE,
     circuit_opened_at |-> IF open THEN None ELSE opened_at]

\* lines 186-193: _reset_circuit_breaker
reset_circuit_breaker(hist, open, opened_at) ==
    [error_history |-> <<>>,
     circuit_open |-> FALSE,
     circuit_opened_at |-> IF open THEN None ELSE opened_at]

\* line 202: (datetime.now() - self.circuit_opened_at).seconds
ElapsedSeconds(t, opened_at) == (t - opened_at) % seconds_per_day

\* lines 195-209: _is_circuit_open at time t; [open, circuit_open] = the
\* answer and the new value of the field
is_circuit_open(open, opened_at, t) ==
    IF ~open THEN [open |-> FALSE, circuit_open |-> open]
    ELSE IF opened_at # None
            /\ ElapsedSeconds(t, opened_at) > circuit_breaker_reset_time
         THEN [open |-> FALSE, circuit_open |-> FALSE]
         ELSE [open |-> TRUE, circuit_open |-> open]

NoReturn == [kind |-> "none", value |-> <<>>, raised |-> FALSE]

\* ResilientAgentWrapper.__init__, lines 15-24, around agent a
ResStart(a) ==
    /\ now = 0
    /\ agent = a
    /\ error_history = <<>>
    /\ circuit_open = FALSE
    /\ circuit_opened_at = None
    /\ rpc = "idle"
    /\ attempt = 0
    /\ original_timeout = a.timeout
    /\ validation_fn = "none"
    /\ ret = NoReturn
    /\ unit_output = <<>>
    /\ invocations = 0
    /\ failed = 0
    /\ streak = <<>>
    /\ calls = 0
    /\ ticks = 0

\* time passes between two calls; the caller has taken the result and the
\* locals of the finished call are gone
Tick(d) ==
    /\ rpc \in {"idle", "returned"}
    /\ ticks < MaxTicks
    /\ ticks' = ticks + 1
    /\ now' = now + d
    /\ rpc' = "idle"
    /\ attempt' = 0
    /\ original_timeout' = agent.timeout
    /\ validation_fn' = "none"
    /\ ret' = NoReturn
    /\ unit_output' = <<>>
    /\ invocations' = 0
    /\ failed' = 0
    /\ UNCHANGED <<agent, error_history, circuit_open, circuit_opened_at,
                   streak, calls>>
    /\ UNCHANGED <<varsPlan, varsCache, varsMore>>

\* lines 26-49: the call, up to the first await of agent.run
run_with_resilience(v) ==
    /\ rpc \in {"idle", "returned"}
    /\ calls < MaxCalls
    /\ calls' = calls + 1
    /\ validation_fn' = v
    /\ failed' = 0
    /\ LET c == is_circuit_open(circuit_open, circuit_opened_at, now)
       IN  /\ circuit_open' = c.circuit_open
           /\ IF c.open
              THEN /\ rpc' = "returned"
                   /\ ret' = [kind |-> "fallback",
                              value |-> get_fallback_response("circuit_breaker", agent.role),
                              raised |-> FALSE]
                   /\ invocations' = 0
                   /\ UNCHANGED <<agent, attempt, original_timeout>>
              ELSE /\ rpc' = "running"
                   /\ ret' = NoReturn
                   /\ original_timeout' = agent.timeout
                   /\ attempt' = 0
                   /\ agent' = [agent EXCEPT !.timeout = AttemptTimeout(agent.timeout, 0)]
                   /\ invocations' = 1
    /\ unit_output' = <<>>
    /\ UNCHANGED <<now, error_history, circuit_opened_at, streak, ticks>>
    /\ UNCHANGED <<varsPlan, varsCache, varsMore>>

\* lines 65-82: an exception of the try block reaches the except clauses
Raised(exc) ==
    LET clause == ExceptClause(exc)
        r == record_error(error_history, now)
    IN  IF clause = "propagate"
        THEN /\ rpc' = "returned"
             /\ ret' = [kind |-> "none", value |-> <<>>, raised |-> TRUE]
             /\ UNCHANGED <<error_history, circuit_open, circuit_opened_at,
                            streak, failed>>
        ELSE /\ error_history' = r.error_history
             /\ circuit_open' = (circuit_open \/ r.opens)
             /\ circuit_opened_at' = IF r.opens THEN now ELSE circuit_opened_at
             /\ streak' = Append(streak, now)
             /\ failed' = failed + 1
             /\ IF attempt < retry_count - 1
                THEN /\ rpc' = "sleeping"
                     /\ UNCHANGED ret
                ELSE /\ rpc' = "returned"
                     /\ ret' = [kind |-> "fallback",
                                value |-> get_fallback_response(clause, agent.role),
                                raised |-> FALSE]

\* line 49 raises asyncio.TimeoutError
AgentTimesOut ==
    /\ rpc = "running"
    /\ Raised("TimeoutError")
    /\ UNCHANGED <<now, agent, attempt, original_timeout, validation_fn,
                   unit_output, invocations, calls, ticks>>
    /\ UNCHANGED <<varsPlan, varsCache, varsMore>>

\* line 49 raises another exception
AgentRaises(exc) ==
    /\ rpc = "running"
    /\ exc # "TimeoutError"
    /\ Raised(exc)
    /\ UNCHANGED <<now, agent, attempt, original_timeout, validation_fn,
                   unit_output, invocations, calls, ticks>>
    /\ UNCHANGED <<varsPlan, varsCache, varsMore>>

\* line 49 returns and validation_fn(result) of line 53 raises
ValidationRaises(exc) ==
    /\ rpc = "running"
    /\ validation_fn = "fn"
    /\ Raised(exc)
    /\ UNCHANGED <<now, agent, attempt, original_timeout, validation_fn,
                   unit_output, invocations, calls, ticks>>
    /\ UNCHANGED <<varsPlan, varsCache, varsMore>>

\* lines 52-56: validation_fn(result) is false and attempts remain:
\* continue, the next attempt starts at once (lines 37-49)
ValidationFailsRetry ==
    /\ rpc = "running"
    /\ validation_fn = "fn"
    /\ attempt < retry_count - 1
    /\ failed' = failed + 1
    /\ attempt' = attempt + 1
    /\ agent' = [agent EXCEPT !.timeout = AttemptTimeout(original_timeout, attempt + 1)]
    /\ invocations' = invocations + 1
    /\ UNCHANGED <<now, error_history, circuit_open, circuit_opened_at, rpc,
                   original_timeout, validation_fn, ret, unit_output, streak,
                   calls, ticks>>
    /\ UNCHANGED <<varsPlan, varsCache, varsMore>>

\* lines 52-58: line 49 returns o, validation_fn(o) is false and this was
\* the last attempt
ValidationFailsLast(o) ==
    /\ rpc = "running"
    /\ validation_fn = "fn"
    /\ ~(attempt < retry_count - 1)
    /\ failed' = failed + 1
    /\ unit_output' = o
    /\ rpc' = "returned"
    /\ ret' = [kind |-> "salvage", value |-> handle_validation_failure(o),
               raised |-> FALSE]
    /\ UNCHANGED <<now, agent, error_history, circuit_open, circuit_opened_at,
                   attempt, original_timeout, validation_fn, invocations,
                   streak, calls, ticks>>
    /\ UNCHANGED <<varsPlan, varsCache, varsMore>>

\* lines 60-63: line 49 returns o, and o passes validation_fn if there is one
AgentSucceeds(o) ==
    /\ rpc = "running"
    /\ unit_output' = o
    /\ LET r == reset_circuit_breaker(error_history, circuit_open, circuit_opened_at)
       IN  /\ error_history' = r.error_history
           /\ circuit_open' = r.circuit_open
           /\ circuit_opened_at' = r.circuit_opened_at
    /\ streak' = <<>>
    /\ agent' = [agent EXCEPT !.timeout = original_timeout]
    /\ rpc' = "returned"
    /\ ret' = [kind |-> "success", value |-> o, raised |-> FALSE]
    /\ UNCHANGED <<now, attempt, original_timeout, validation_fn, invocations,
                   failed, calls, ticks>>
    /\ UNCHANGED <<varsPlan, varsCache, varsMore>>

\* lines 71 and 80, then lines 37-49 of the next attempt: the backoff sleep
\* of 2 ** attempt seconds ends and agent.run is awaited again
BackoffDone ==
    /\ rpc = "sleeping"
    /\ now' = now + Pow(2, attempt)
    /\ attempt' = attempt + 1
    /\ agent' = [agent EXCEPT !.timeout = AttemptTimeout(original_timeout, attempt + 1)]
    /\ invocations' = invocations + 1
    /\ rpc' = "running"
    /\ UNCHANGED <<error_history, circuit_open, circuit_opened_at,
                   original_timeout, validation_fn, ret, unit_output, failed,
                   streak, calls, ticks>>
    /\ UNCHANGED <<varsPlan, varsCache, varsMore>>

NextRes ==
    \/ \E d \in TimeSteps : Tick(d)
    \/ \E v \in {"none", "fn"} : run_with_resilience(v)
    \/ AgentTimesOut
    \/ \E exc \in Exceptions : AgentRaises(exc)
    \/ \E exc \in Exceptions : ValidationRaises(exc)
    \/ ValidationFailsRetry
    \/ \E o \in Outputs : ValidationFailsLast(o)
    \/ \E o \in Outputs : AgentSucceeds(o)
    \/ BackoffDone

\* ------------------------------------------------------------------------
\* PromptCache
\* ------------------------------------------------------------------------
max_size == 1       \* capacity given to PromptCache(max_size)
MaxStores == 2      \* store calls in one behaviour
MaxGets == 2        \* get calls in one behaviour
MaxCapacity == 30   \* capacities for which the size of an eviction is computed

\* agent names the callers pass
CacheAgents == {"principal_analysis", "synthesis"}

\* queries, as lists of characters
Queries == {<<"a", " ", "b">>, <<"b", " ", "a">>, <<"C", " ">>, <<" ">>}

\* the (agent_name, query) pairs of the calls: every query for one worker,
\* and for the other worker a query the first one uses and the blank one
Requests == {<<"principal_analysis", q>> : q \in Queries}
            \cup {<<"synthesis", <<"a", " ", "b">> >>, <<"synthesis", <<" ">> >>}

\* (success, response_quality) of a store; quality in tenths
Observations == {[success |-> TRUE, quality |-> 8],
                 [success |-> TRUE, quality |-> 5],
                 [success |-> FALSE, quality |-> 10]}

\* similarity_threshold of a get, in tenths (0.9 is the default)
Thresholds == {0 - 1, 0, 9}

\* str.lower()
LowerChar(c) == IF c = "A" THEN "a" ELSE IF c = "B" THEN "b"
                ELSE IF c = "C" THEN "c" ELSE c
Lower(q) == [i \in 1..Len(q) |-> LowerChar(q[i])]

\* str.strip()
RECURSIVE LStrip(_)
LStrip(q) == IF q # <<>> /\ Head(q) = " " THEN LStrip(Tail(q)) ELSE q
RECURSIVE RStrip(_)
RStrip(q) == IF q # <<>> /\ q[Len(q)] = " " THEN RStrip(SubSeq(q, 1, Len(q) - 1))
             ELSE q
Strip(q) == RStrip(LStrip(q))

\* set(str.split()): the maximal runs of non-blank characters
RECURSIVE SplitFrom(_, _, _)
SplitFrom(q, i, word) ==
    IF i > Len(q) THEN (IF word = <<>> THEN {} ELSE {word})
    ELSE IF q[i] = " "
         THEN (IF word = <<>> THEN {} ELSE {word}) \cup SplitFrom(q, i + 1, <<>>)
         ELSE SplitFrom(q, i + 1, Append(word, q[i]))
\* set(query.lower().split()) of every query, computed once
WordsTable == [q \in Queries |-> SplitFrom(Lower(q), 1, <<>>)]
Words(q) == WordsTable[q]

\* lines 328-331: md5 of f"{agent_name}:{query.lower().strip()}"; the digest
\* is taken to be one-to-one, so the key is the hashed text
KeyTable == [a \in CacheAgents, q \in Queries |-> <<a, ":">> \o Strip(Lower(q))]
generate_key(agent_name, query) == KeyTable[agent_name, query]

\* position of key k in the dict (insertion order), 0 if absent
IndexOf(entries, k) ==
    IF \E i \in 1..Len(entries) : entries[i].key = k
    THEN CHOOSE i \in 1..Len(entries) : entries[i].key = k
    ELSE 0

\* access_counts.get(k, 0)
CountGet(counts, k) == IF k \in DOMAIN counts THEN counts[k] ELSE 0

NoEntry == [key |-> <<>>, agent_name |-> "", query |-> <<>>, prompt |-> None]

\* lines 356-358: Jaccard similarity, as [num, den] (0 when the union is
\* empty)
Similarity(query, cached_query) ==
    LET intersection == Cardinality(Words(query) \cap Words(cached_query))
        union == Cardinality(Words(query) \cup Words(cached_query))
    IN  IF union > 0 THEN [num |-> intersection, den |-> union]
        ELSE [num |-> 0, den |-> 1]

\* line 360 without "similarity > best_score"
MatchesThresholdOnly(s, threshold, best_score) ==
    s.num * 10 >= threshold * s.den

\* line 360: similarity >= similarity_threshold and similarity > best_score
Matches(s, threshold, best_score) ==
    /\ s.num * 10 >= threshold * s.den
    /\ s.num * best_score.den > best_score.num * s.den

\* lines 349-362: the scan of the cache, from position i, with the best
\* match so far (an index, 0 for None) and its score
RECURSIVE BestMatch(_, _, _, _, _, _, _)
BestMatch(entries, i, agent_name, query, threshold, best_match, best_score) ==
    IF i > Len(entries) THEN best_match
    ELSE IF entries[i].agent_name # agent_name
         THEN BestMatch(entries, i + 1, agent_name, query, threshold,
                        best_match, best_score)
         ELSE LET s == Similarity(query, entries[i].query)
              IN  IF Matches(s, threshold, best_score)
                  THEN BestMatch(entries, i + 1, agent_name, query, threshold, i, s)
                  ELSE BestMatch(entries, i + 1, agent_name, query, threshold,
                                 best_match, best_score)

\* lines 413-417: the keys sorted by access count; sorted() is stable, so
\* ties stay in the dict's insertion order
SortedKeys(entries, counts) ==
    LET n == Len(entries)
        before(i, j) ==
            \/ CountGet(counts, entries[i].key) < CountGet(counts, entries[j].key)
            \/ /\ CountGet(counts, entries[i].key) = CountGet(counts, entries[j].key)
               /\ i < j
        rank(i) == 1 + Cardinality({j \in 1..n : before(j, i)})
    IN  [r \in 1..n |-> entries[CHOOSE i \in 1..n : rank(i) = r].key]

\* line 420 without the max(1, ...)
remove_count_floor(size) == size \div 10

\* line 420: max(1, int(self.max_size * 0.1))
remove_count(size) == IF size \div 10 > 1 THEN size \div 10 ELSE 1
RemoveCount == remove_count(max_size)

\* lines 410-427: _evict_least_accessed, as the set of the keys removed
EvictedKeys(entries, counts) ==
    LET sorted_keys == SortedKeys(entries, counts)
        m == IF RemoveCount < Len(sorted_keys) THEN RemoveCount ELSE Len(sorted_keys)
    IN  {sorted_keys[i] : i \in 1..m}

\* a dict without the keys of gone
DictWithout(d, gone) == [k \in DOMAIN d \ gone |-> d[k]]

\* lines 378-388: the running statistics of the key after the observation
UpdatedRate(rates, key, success, quality) ==
    IF key \in DOMAIN rates
    THEN [count |-> rates[key].count + 1,
          success_sum |-> rates[key].success_sum + (IF success THEN 1 ELSE 0),
          quality_sum |-> rates[key].quality_sum + quality]
    ELSE [count |-> 1,
          success_sum |-> IF success THEN 1 ELSE 0,
          quality_sum |-> quality]

\* line 394 without the quality test
AdmittedBySuccessOnly(rate) == rate.success_sum * 10 >= 8 * rate.count

\* lines 391-394: success_rate >= 0.8 and avg_quality >= 0.8
Admitted(rate) ==
    /\ rate.success_sum * 10 >= 8 * rate.count
    /\ rate.quality_sum >= 8 * rate.count

NoOp == [op |-> "none", agent_name |-> "", query |-> <<>>, prompt |-> None,
         success |-> FALSE, quality |-> 0, first |-> FALSE, nonpositive |-> FALSE,
         path |-> "", hit |-> NoEntry, result |-> None]

\* PromptCache.__init__, lines 322-326
CacheStart ==
    /\ cache = <<>>
    /\ access_counts = <<>>
    /\ success_rates = <<>>
    /\ last = NoOp
    /\ stores = 0
    /\ gets = 0

\* what get returns for the entry at position found (0: nothing found)
GetResult(found) ==
    [hit |-> IF found = 0 THEN NoEntry
             ELSE [key |-> cache[found].key,
                   agent_name |-> cache[found].agent_name,
                   query |-> cache[found].query,
                   prompt |-> cache[found].prompt],
     result |-> IF found = 0 THEN None ELSE cache[found].prompt]

\* lines 340 and 365: self.access_counts[key] = self.access_counts.get(key, 0) + 1
CountUp(counts, key) ==
    [k \in DOMAIN counts \cup {key} |->
        IF k = key THEN CountGet(counts, k) + 1 ELSE counts[k]]

\* lines 333-369: get(agent_name, query, similarity_threshold)
get(agent_name, query, similarity_threshold) ==
    /\ gets < MaxGets
    /\ gets' = gets + 1
    /\ \E exact \in {IndexOf(cache, generate_key(agent_name, query))} :
         IF exact # 0
         THEN /\ access_counts' = CountUp(access_counts, cache[exact].key)
              /\ last' = [NoOp EXCEPT
                            !.op = "get", !.agent_name = agent_name,
                            !.query = query, !.nonpositive = (similarity_threshold <= 0),
                            !.path = "exact",
                            !.hit = GetResult(exact).hit,
                            !.result = GetResult(exact).result]
         ELSE \E best_match \in {BestMatch(cache, 1, agent_name, query,
                                           similarity_threshold, 0,
                                           [num |-> 0, den |-> 1])} :
              /\ access_counts' = IF best_match = 0 THEN access_counts
                                  ELSE CountUp(access_counts, cache[best_match].key)
              /\ last' = [NoOp EXCEPT
                            !.op = "get", !.agent_name = agent_name,
                            !.query = query, !.nonpositive = (similarity_threshold <= 0),
                            !.path = IF best_match # 0 THEN "similar" ELSE "miss",
                            !.hit = GetResult(best_match).hit,
                            !.result = GetResult(best_match).result]
    /\ UNCHANGED <<cache, success_rates, stores>>
    /\ UNCHANGED <<varsPlan, varsRes, varsMore>>

\* lines 371-408: store(agent_name, query, prompt, success, response_quality)
store(agent_name, query, prompt, success, response_quality) ==
    /\ stores < MaxStores
    /\ stores' = stores + 1
    /\ LET key == generate_key(agent_name, query)
           rate == UpdatedRate(success_rates, key, success, response_quality)
           rates1 == [k \in DOMAIN success_rates \cup {key} |->
                        IF k = key THEN rate ELSE success_rates[k]]
           entry == [key |-> key, agent_name |-> agent_name, query |-> query,
                     prompt |-> prompt,
                     success_rate |-> [num |-> rate.success_sum, den |-> rate.count],
                     quality |-> [num |-> rate.quality_sum, den |-> rate.count]]
           at == IndexOf(cache, key)
           cache1 == IF at # 0 THEN [cache EXCEPT ![at] = entry]
                     ELSE Append(cache, entry)
           gone == IF Len(cache1) > max_size
                   THEN EvictedKeys(cache1, access_counts) ELSE {}
       IN  /\ last' = [NoOp EXCEPT
                         !.op = "store", !.agent_name = agent_name,
                         !.query = query, !.prompt = prompt,
                         !.success = success, !.quality = response_quality,
                         !.first = (key \notin DOMAIN success_rates)]
           /\ IF Admitted(rate)
              THEN /\ cache' = SelectSeq(cache1, LAMBDA e : e.key \notin gone)
                   /\ access_counts' = DictWithout(access_counts, gone)
                   /\ success_rates' = DictWithout(rates1, gone)
              ELSE /\ success_rates' = rates1
                   /\ UNCHANGED <<cache, access_counts>>
    /\ UNCHANGED gets
    /\ UNCHANGED <<varsPlan, varsRes, varsMore>>

\* the artifact of a store is named by the number of the store
NextCache ==
    \/ \E r \in Requests, t \in Thresholds : get(r[1], r[2], t)
    \/ \E r \in Requests, o \in Observations :
           store(r[1], r[2], stores + 1, o.success, o.quality)

\* ------------------------------------------------------------------------
\* AgentCommunicationProtocol: the global key/value store
\* ------------------------------------------------------------------------
\* keys given to set_global_context and get_global_context; "" is the empty
\* string
Keys == {"", "query", "mode"}

\* the default of the key parameter of get_global_context (line 117)
NoKey == "None"

\* values stored; "" is the empty string
Values == {"", "expert", "auto"}

\* truth value of a key in "if key:" (line 119)
Truthy(key) == key # NoKey /\ key # ""

\* what a get returned: a stored value, None, or the dict itself
NoResult == [kind |-> "none", value |-> "", dict |-> <<>>]

NoCall == [op |-> "none", key |-> NoKey, value |-> "", result |-> NoResult]

\* lines 54-58
ProtoStart ==
    /\ global_context = <<>>
    /\ glast = NoCall
    /\ shared_context = <<>>
    /\ conversation_history = <<>>

\* lines 113-115
set_global_context(key, value) ==
    /\ global_context' = [k \in DOMAIN global_context \cup {key} |->
                             IF k = key THEN value ELSE global_context[k]]
    /\ glast' = [NoCall EXCEPT !.op = "set", !.key = key, !.value = value]
    /\ UNCHANGED <<shared_context, conversation_history>>
    /\ UNCHANGED <<varsPlan, varsRes, varsCache, varsApp, varsOrch, varsTrend>>

\* lines 117-121: the value get_global_context returns
get_global_context_result(key) ==
    IF Truthy(key)
    THEN IF key \in DOMAIN global_context
         THEN [NoResult EXCEPT !.kind = "value", !.value = global_context[key]]
         ELSE NoResult
    ELSE [NoResult EXCEPT !.kind = "dict", !.dict = global_context]

\* lines 117-121
get_global_context(key) ==
    /\ glast' = [NoCall EXCEPT !.op = "get", !.key = key,
                               !.result = get_global_context_result(key)]
    /\ UNCHANGED <<global_context, shared_context, conversation_history>>
    /\ UNCHANGED <<varsPlan, varsRes, varsCache, varsApp, varsOrch, varsTrend>>

\* handoffs processed in one run of the hub
MaxHandoffs == 101

\* the handoffs given to agent_handoff: one from the synthesizer to a worker,
\* and two with a missing name; timestamp is filled in when the handoff is
\* created
Handoffs ==
    { [from_agent |-> f, to_agent |-> t, findings_count |-> 1] :
        f \in {"", "Principal Synthesizer"}, t \in {"", "Domain Specialist"} }
    \ {[from_agent |-> "", to_agent |-> "", findings_count |-> 1]}

\* lines 75-82: the audit entry of a handoff; the timestamp is the ordinal of
\* the handoff among those logged
AuditEntry(handoff) ==
    [type |-> "handoff",
     timestamp |-> Len(conversation_history) + 1,
     from |-> handoff.from_agent,
     to |-> handoff.to_agent,
     findings_count |-> handoff.findings_count]

\* lines 60-82: AgentCommunicationProtocol.agent_handoff
process_handoff(handoff) ==
    /\ Len(conversation_history) < MaxHandoffs
    /\ IF handoff.from_agent = "" \/ handoff.to_agent = ""
       THEN /\ glast' = [NoCall EXCEPT !.op = "handoff", !.value = "invalid"]
            /\ UNCHANGED <<shared_context, conversation_history>>
       ELSE /\ shared_context' =
                  [a \in DOMAIN shared_context \cup {handoff.to_agent} |->
                      IF a = handoff.to_agent
                      THEN AuditEntry(handoff).timestamp
                      ELSE shared_context[a]]
            /\ conversation_history' =
                  Append(conversation_history, AuditEntry(handoff))
            /\ glast' = [NoCall EXCEPT !.op = "handoff", !.key = handoff.to_agent]
    /\ UNCHANGED global_context
    /\ UNCHANGED <<varsPlan, varsRes, varsCache, varsApp, varsOrch, varsTrend>>

NextProto ==
    \/ \E k \in Keys, v \in Values : set_global_context(k, v)
    \/ \E k \in Keys \cup {NoKey} : get_global_context(k)
    \/ \E h \in Handoffs : process_handoff(h)

\* ------------------------------------------------------------------------
\* app.py: the websocket endpoint and the is_processing flag
\* ------------------------------------------------------------------------
MaxConns == 3       \* websockets

Websockets == 1..MaxConns

\* the "type" of the messages that are neither a research message nor
\* make the handler raise: a ping, and any other type
OtherTypes == {"ping", "other"}

\* exceptions a send on a closed websocket raises: WebSocketDisconnect is
\* caught at line 361, anything else at line 363
SendErrors == {"WebSocketDisconnect", "RuntimeError"}

\* line 45 and the connections set
AppStart ==
    /\ is_processing = FALSE
    /\ connections = {}
    /\ handler = [w \in Websockets |-> "none"]
    /\ wlast = [websocket |-> 0, did |-> "none"]

\* lines 334-335
Accept(w) ==
    /\ handler[w] = "none"
    /\ connections' = connections \cup {w}
    /\ handler' = [handler EXCEPT ![w] = "receive"]
    /\ wlast' = [websocket |-> w, did |-> "accept"]
    /\ UNCHANGED is_processing
    /\ UNCHANGED <<varsPlan, varsRes, varsCache, varsProto, varsOrch, varsTrend>>

\* lines 341-347: a research message while no request is being processed
ReceiveResearchStarts(w) ==
    /\ handler[w] = "receive"
    /\ ~is_processing
    /\ is_processing' = TRUE
    /\ handler' = [handler EXCEPT ![w] = "research"]
    /\ wlast' = [websocket |-> w, did |-> "start"]
    /\ UNCHANGED connections
    /\ UNCHANGED <<varsPlan, varsRes, varsCache, varsProto, varsOrch, varsTrend>>

\* lines 350-354: a research message while is_processing is set
ReceiveResearchRejected(w) ==
    /\ handler[w] = "receive"
    /\ is_processing
    /\ wlast' = [websocket |-> w, did |-> "reject"]
    /\ UNCHANGED <<is_processing, connections, handler>>
    /\ UNCHANGED <<varsPlan, varsRes, varsCache, varsProto, varsOrch, varsTrend>>

\* lines 356-357 and the fall-through for other types
ReceiveOther(w, msg) ==
    /\ handler[w] = "receive"
    /\ wlast' = [websocket |-> w, did |-> msg]
    /\ UNCHANGED <<is_processing, connections, handler>>
    /\ UNCHANGED <<varsPlan, varsRes, varsCache, varsProto, varsOrch, varsTrend>>

\* lines 339-341 raise something that is not a WebSocketDisconnect (a
\* message that is no JSON object or has no "type"), or a send of lines
\* 351 and 357 does: lines 363-365
ReceiveRaises(w) ==
    /\ handler[w] = "receive"
    /\ connections' = connections \ {w}
    /\ is_processing' = FALSE
    /\ handler' = [handler EXCEPT ![w] = "none"]
    /\ wlast' = [websocket |-> w, did |-> "raise"]
    /\ UNCHANGED <<varsPlan, varsRes, varsCache, varsProto, varsOrch, varsTrend>>

\* receive_json raises WebSocketDisconnect: lines 361-362
Disconnect(w) ==
    /\ handler[w] = "receive"
    /\ connections' = connections \ {w}
    /\ handler' = [handler EXCEPT ![w] = "none"]
    /\ wlast' = [websocket |-> w, did |-> "disconnect"]
    /\ UNCHANGED is_processing
    /\ UNCHANGED <<varsPlan, varsRes, varsCache, varsProto, varsOrch, varsTrend>>

\* research_with_streaming returns (it catches what the research raises,
\* lines 153-187): line 349
ResearchReturns(w) ==
    /\ handler[w] = "research"
    /\ is_processing' = FALSE
    /\ handler' = [handler EXCEPT ![w] = "receive"]
    /\ wlast' = [websocket |-> w, did |-> "done"]
    /\ UNCHANGED connections
    /\ UNCHANGED <<varsPlan, varsRes, varsCache, varsProto, varsOrch, varsTrend>>

\* the send of lines 134-139, which is outside of the try of line 152,
\* raises because the websocket is closed: the exception leaves
\* research_with_streaming and line 349 is not reached
InitSendRaises(w, exc) ==
    /\ handler[w] = "research"
    /\ wlast.websocket = w /\ wlast.did = "start"
    /\ connections' = connections \ {w}
    /\ is_processing' = IF exc = "WebSocketDisconnect" THEN is_processing
                         ELSE FALSE
    /\ handler' = [handler EXCEPT ![w] = "none"]
    /\ wlast' = [websocket |-> w, did |-> exc]
    /\ UNCHANGED <<varsPlan, varsRes, varsCache, varsProto, varsOrch, varsTrend>>

NextApp ==
    \/ \E w \in Websockets : Accept(w)
    \/ \E w \in Websockets : ReceiveResearchStarts(w)
    \/ \E w \in Websockets : ReceiveResearchRejected(w)
    \/ \E w \in Websockets, msg \in OtherTypes : ReceiveOther(w, msg)
    \/ \E w \in Websockets : ReceiveRaises(w)
    \/ \E w \in Websockets : Disconnect(w)
    \/ \E w \in Websockets : ResearchReturns(w)
    \/ \E w \in Websockets, exc \in SendErrors : InitSendRaises(w, exc)

\* ------------------------------------------------------------------------
\* ProductionOrchestrator.research
\* ------------------------------------------------------------------------
MaxResearches == 2  \* research calls in one behaviour
MaxExternal == 1    \* calls of other clients of the memory store and the protocol

Principal == "Principal Synthesizer"
DS == "Domain Specialist"
WH == "Web Harvester"
FV == "Fact Validator"
QA == "Quality Auditor"

\* lines 57-60: _setup_dependencies
OrchDependencies ==
    [a \in {FV, QA} |-> IF a = FV THEN <<DS, WH>> ELSE <<Principal>>]

\* the query of the calls
OrchQueries == {<<"a", " ", "b">>}

Modes == {"auto", "expert"}

\* lines 208-217 of communication.py: the loop "while stack"
RECURSIVE GroupLoop(_, _, _, _, _)
GroupLoop(stk, g, req, pos, lvls) ==
    IF stk = <<>> THEN lvls
    ELSE LET st == LevelPass(stk, 1, g, req,
                             [level |-> <<>>, stack |-> stk, positioned |-> pos])
         IN  GroupLoop(st.stack, g, req, st.positioned,
                       IF st.level # <<>> THEN Append(lvls, st.level) ELSE lvls)

\* line 155: self.coordinator.calculate_execution_order(agents_requested)
ExecutionOrder(req) ==
    LET g == BuildGraph(req, OrchDependencies)
    IN  GroupLoop(visitAll(1, g, req, [visited |-> {}, stack |-> <<>>]).stack,
                  g, req, {}, <<>>)

\* what analyze_query can return (lines 106-108): a dict that has or lacks
\* "complexity", whose "agents_needed" is one of two lists and whose
\* "key_aspects" is a list of strings, null, or a list of numbers
Analyses ==
    {[complexity |-> TRUE, agents_needed |-> <<DS, WH, FV, QA>>, key_aspects |-> "strings"],
     [complexity |-> TRUE, agents_needed |-> <<DS, WH>>, key_aspects |-> "null"],
     [complexity |-> TRUE, agents_needed |-> <<DS, WH>>, key_aspects |-> "numbers"],
     [complexity |-> FALSE, agents_needed |-> <<DS, WH>>, key_aspects |-> "strings"]}

\* the analysis when the prompt cache has the prompt: the text that
\* principal.run returns (lines 110-113)
TextAnalysis == [complexity |-> FALSE, agents_needed |-> <<>>, key_aspects |-> "text"]

NoAnalysis == [complexity |-> FALSE, agents_needed |-> <<>>, key_aspects |-> "none"]

\* a row of the memory store: the query, the success column and the
\* "quality_score" of the metadata (None, a dict, or a number in tenths)
NoQuality == [kind |-> "None", tenths |-> 0]
DictQuality == [kind |-> "dict", tenths |-> 0]
NumberQuality(n) == [kind |-> "number", tenths |-> n]

\* rows that a caller of AgentMemorySystem.store_interaction other than
\* research can write
ExternalRows ==
    {[query |-> <<"b", " ", "a">>, success |-> TRUE, quality |-> NumberQuality(10), by |-> "external"],
     [query |-> <<"b", " ", "a">>, success |-> TRUE, quality |-> NumberQuality(5), by |-> "external"],
     [query |-> <<"C", " ">>, success |-> TRUE, quality |-> NumberQuality(10), by |-> "external"],
     [query |-> <<"a", " ", "b">>, success |-> FALSE, quality |-> NumberQuality(10), by |-> "external"]}

\* rows of the memory store that research did not write, and handoffs that
\* research did not make
Externals ==
    Cardinality({i \in 1..Len(memories) : memories[i].by = "external"})
    + Cardinality(skip_warned)

Event(type, name) == [type |-> type, agent |-> name]

NoOutcome == [kind |-> "none", from_cache |-> FALSE, findings |-> <<>>]

\* memory.py lines 177-199: the rows with success = 1 whose query has a
\* Jaccard similarity of at least min_similarity = 0.7
SimilarRows(q) ==
    {i \in 1..Len(memories) :
        /\ memories[i].success
        /\ Similarity(q, memories[i].query).num * 10
               >= 7 * Similarity(q, memories[i].query).den}

\* memory.py lines 181 and 202-203: rows come newest first and the sort by
\* similarity is stable, so the first result is the newest of the rows of
\* the highest similarity (0 if there is none)
TopRow(q) ==
    IF SimilarRows(q) = {} THEN 0
    ELSE CHOOSE i \in SimilarRows(q) :
           \A j \in SimilarRows(q) :
               LET si == Similarity(q, memories[i].query)
                   sj == Similarity(q, memories[j].query)
               IN  \/ si.num * sj.den > sj.num * si.den
                   \/ (si.num * sj.den = sj.num * si.den /\ i >= j)

\* lines 72-76 without the test "quality_score > 0.9"
MemoryHitAnyNumber(q) ==
    /\ TopRow(q) # 0
    /\ memories[TopRow(q)].quality.kind = "number"
    /\ memories[TopRow(q)].quality.tenths # 0

\* lines 71-76: similar_memories and quality_score and quality_score > 0.9,
\* a dict counting as 0
MemoryHit(q) ==
    /\ TopRow(q) # 0
    /\ memories[TopRow(q)].quality.kind = "number"
    /\ memories[TopRow(q)].quality.tenths > 9

\* line 101: self.prompt_cache.get("principal_analysis", query) finds a
\* prompt: under the key of the query, or under a query of similarity >= 0.9
PromptCacheHit(q) ==
    \E c \in analysis_prompts :
        \/ generate_key("principal_analysis", c) = generate_key("principal_analysis", q)
        \/ Matches(Similarity(q, c), 9, [num |-> 0, den |-> 1])

\* ProductionOrchestrator.__init__(use_enhanced), lines 29-55
\* a key of global_context that is not set, and the list of websites that
\* the harvest of research call n recorded
NoFact == [set |-> FALSE, value |-> <<>>]
WebsitesOf(n) == [set |-> TRUE, value |-> <<n>>]

\* the local of line 225 before the line is reached
NotRead == [read |-> FALSE, value |-> <<>>]

OrchStartWith(enhanced) ==
    /\ use_enhanced = enhanced
    /\ opc = "idle"
    /\ research_query = <<>>
    /\ mode = ""
    /\ analysis = NoAnalysis
    /\ agents_requested = <<>>
    /\ execution_levels = <<>>
    /\ level = 0
    /\ tasks = <<>>
    /\ seen = <<>>
    /\ findings = <<>>
    /\ events = <<>>
    /\ outcome = NoOutcome
    /\ memories = <<>>
    /\ analysis_prompts = {}
    /\ skip_warned = {}
    /\ researches = 0
    /\ websites_explored = NoFact
    /\ websites = NotRead

\* app.py line 43: orchestrator = ProductionOrchestrator(use_enhanced=True)
OrchStart == OrchStartWith(TRUE)

\* the locals of a call that has not got to them yet
FreshLocals ==
    /\ analysis' = NoAnalysis
    /\ agents_requested' = <<>>
    /\ execution_levels' = <<>>
    /\ level' = 0
    /\ tasks' = <<>>
    /\ seen' = <<>>
    /\ findings' = <<>>
    /\ websites' = NotRead

\* lines 62-98: research(query, mode, stream_callback) up to the analysis
research(q, m) ==
    /\ opc \in {"idle", "returned", "raised"}
    /\ researches < MaxResearches
    /\ researches' = researches + 1
    /\ research_query' = q
    /\ mode' = m
    /\ FreshLocals
    /\ IF MemoryHit(q)
       THEN /\ events' = <<Event("cache_hit", "")>>
            /\ outcome' = [NoOutcome EXCEPT !.kind = "returned", !.from_cache = TRUE]
            /\ opc' = "returned"
       ELSE /\ events' = <<Event("agent_start", Principal)>>
            /\ outcome' = NoOutcome
            /\ opc' = "analysis"
    /\ UNCHANGED <<use_enhanced, memories, analysis_prompts, skip_warned>>
    /\ UNCHANGED websites_explored
    /\ UNCHANGED <<varsPlan, varsRes, varsCache, varsProto, varsApp, varsTrend>>

\* lines 100-155 when the prompt cache has a prompt for the query: the
\* analysis is the text principal.run returns, and analysis.get (line 137)
\* raises AttributeError
AnalysisFromCachedPrompt ==
    /\ opc = "analysis"
    /\ PromptCacheHit(research_query)
    /\ analysis' = TextAnalysis
    /\ events' = Append(events, Event("agent_complete", Principal))
    /\ outcome' = [NoOutcome EXCEPT !.kind = "raised"]
    /\ opc' = "raised"
    /\ UNCHANGED <<use_enhanced, research_query, mode, agents_requested, execution_levels,
                   level, tasks, seen, findings, memories, analysis_prompts,
                   skip_warned, researches>>
    /\ UNCHANGED <<websites_explored, websites>>
    /\ UNCHANGED <<varsPlan, varsRes, varsCache, varsProto, varsApp, varsTrend>>

\* lines 100-155 when the prompt cache has no prompt: analyze_query returns
\* a dict (the enhanced principal returns one that has "complexity")
Analysis(an) ==
    /\ opc = "analysis"
    /\ ~PromptCacheHit(research_query)
    /\ use_enhanced => an.complexity
    /\ analysis' = an
    /\ analysis_prompts' = IF an.complexity THEN analysis_prompts \cup {research_query}
                           ELSE analysis_prompts
    /\ events' = Append(events, Event("agent_complete", Principal))
    /\ agents_requested' = IF mode = "expert" THEN <<DS, WH, FV, QA>>
                           ELSE an.agents_needed
    /\ execution_levels' = ExecutionOrder(agents_requested')
    /\ level' = 1
    /\ opc' = "levels"
    /\ UNCHANGED <<use_enhanced, research_query, mode, tasks, seen, findings, outcome,
                   memories, skip_warned, researches>>
    /\ UNCHANGED <<websites_explored, websites>>
    /\ UNCHANGED <<varsPlan, varsRes, varsCache, varsProto, varsApp, varsTrend>>

\* ------------------------------------------------------------------------
\* The trend of a worker: PresentationAgent._calculate_trend (base.py) and
\* AgentMemorySystem.get_agent_performance_metrics (memory.py)
\* ------------------------------------------------------------------------
\* executions recorded for the worker
MaxExecutions == 11

\* base.py lines 250 and 253: the number of executions in a window
trend_window == 5

\* base.py lines 259 and 261: the margin 0.1, as a fraction
trend_margin_num == 1
trend_margin_den == 10

\* memory.py line 248: LIMIT 10
recent_limit == 10

\* sum(1 for e in xs if e["success"]) and sum(r[0] for r in recent)
RECURSIVE Successes(_)
Successes(xs) ==
    IF xs = <<>> THEN 0
    ELSE (IF Head(xs) THEN 1 ELSE 0) + Successes(Tail(xs))

\* xs[-n:]
LastN(xs, n) ==
    IF Len(xs) <= n THEN xs ELSE SubSeq(xs, Len(xs) - n + 1, Len(xs))

\* xs[:n]
FirstN(xs, n) ==
    IF Len(xs) <= n THEN xs ELSE SubSeq(xs, 1, n)

\* base.py line 254: execution_history[-10:-5] when at least 10 executions
\* are recorded, execution_history[:5] otherwise
Older(history) ==
    IF Len(history) >= 2 * trend_window
    THEN FirstN(LastN(history, 2 * trend_window), trend_window)
    ELSE FirstN(history, trend_window)

\* a / b > c / d + 0.1 for b, d > 0
ExceedsByMargin(a, b, c, d) ==
    a * d * trend_margin_den > c * b * trend_margin_den + trend_margin_num * b * d

\* base.py lines 248-264
calculate_trend_result(history) ==
    IF Len(history) < trend_window THEN "insufficient_data"
    ELSE LET recent == LastN(history, trend_window)
             older == Older(history)
         IN  IF ExceedsByMargin(Successes(recent), Len(recent),
                                Successes(older), Len(older))
             THEN "improving"
             ELSE IF ExceedsByMargin(Successes(older), Len(older),
                                     Successes(recent), Len(recent))
                  THEN "degrading"
                  ELSE "stable"

\* memory.py lines 222-258: the "trend" entry of the metrics of a worker
\* whose rows of the memories table are rows, oldest first, and whose row of
\* agent_metrics counts all of them; "absent" when the entry is not set
metrics_trend(rows) ==
    LET recent == LastN(rows, recent_limit)
    IN  IF recent = <<>> THEN "absent"
        ELSE IF Successes(recent) * Len(rows) > Successes(rows) * Len(recent)
             THEN "improving"
             ELSE "stable"

NoTrend == [fn |-> "none", trend |-> "none"]

\* base.py line 50; memory.py line 97
TrendStart ==
    /\ execution_history = <<>>
    /\ tlast = NoTrend

\* base.py lines 248-264
calculate_trend ==
    /\ tlast' = [fn |-> "_calculate_trend",
                 trend |-> calculate_trend_result(execution_history)]
    /\ UNCHANGED execution_history
    /\ UNCHANGED <<varsPlan, varsRes, varsCache, varsProto, varsApp, varsOrch>>

\* memory.py lines 208-266, with no metrics cached for the worker
get_agent_performance_metrics ==
    /\ tlast' = [fn |-> "get_agent_performance_metrics",
                 trend |-> metrics_trend(execution_history)]
    /\ UNCHANGED execution_history
    /\ UNCHANGED <<varsPlan, varsRes, varsCache, varsProto, varsApp, varsOrch>>

NextTrend ==
    \/ calculate_trend
    \/ get_agent_performance_metrics

MoreStart == ProtoStart /\ AppStart /\ OrchStart /\ TrendStart

\* ------------------------------------------------------------------------
\* Specifications
\* ------------------------------------------------------------------------
InitPlan ==
    InitPlanVars /\ ResStart([role |-> "orchestrator", timeout |-> 360]) /\ CacheStart
    /\ MoreStart

SpecPlan == InitPlan /\ [][NextPlan]_vars

InitRes ==
    InitPlanVars /\ (\E a \in WrappedAgents : ResStart(a)) /\ CacheStart
    /\ MoreStart

SpecRes == InitRes /\ [][NextRes]_vars

InitCache ==
    InitPlanVars /\ ResStart([role |-> "orchestrator", timeout |-> 360]) /\ CacheStart
    /\ MoreStart

SpecCache == InitCache /\ [][NextCache]_vars

InitProto ==
    InitPlanVars /\ ResStart([role |-> "orchestrator", timeout |-> 360]) /\ CacheStart
    /\ MoreStart

SpecProto == InitProto /\ [][NextProto]_vars

InitApp ==
    InitPlanVars /\ ResStart([role |-> "orchestrator", timeout |-> 360]) /\ CacheStart
    /\ MoreStart

SpecApp == InitApp /\ [][NextApp]_vars

\* the histories a trend is computed for
Histories ==
    UNION { [1..n -> BOOLEAN] : n \in 0..MaxExecutions }

InitTrend ==
    InitPlanVars /\ ResStart([role |-> "orchestrator", timeout |-> 360]) /\ CacheStart
    /\ ProtoStart /\ AppStart /\ OrchStart
    /\ execution_history \in Histories
    /\ tlast = NoTrend

SpecTrend == InitTrend /\ [][NextTrend]_vars

\* ---- properties of the planner ----

\* d is reachable from a by one or more dependency edges of the map
RECURSIVE ReachVia(_, _, _)
ReachVia(deps, from, n) ==
    IF n = 0 THEN {}
    ELSE LET direct == UNION {Range(DictGet(deps, a)) : a \in from}
         IN  direct \cup ReachVia(deps, direct, n - 1)

Acyclic(deps) ==
    \A a \in Agents : a \notin ReachVia(deps, {a}, Cardinality(Agents))

\* index of the levels that hold agent a
LevelsOf(a) == {i \in 1..Len(levels) : a \in Range(levels[i])}

\* number of occurrences of a in the returned levels
RECURSIVE CountIn(_, _)
CountIn(s, a) ==
    IF s = <<>> THEN 0
    ELSE (IF Head(s) = a THEN 1 ELSE 0) + CountIn(Tail(s), a)

RECURSIVE Flatten(_)
Flatten(ls) == IF ls = <<>> THEN <<>> ELSE Head(ls) \o Flatten(Tail(ls))

\* C1: for an acyclic dependency map, every worker of the returned levels
\* sits in a level strictly after the level of each of its requested
\* dependencies.
C1_DepsStrictlyEarlier ==
    (cpc = "done" /\ Acyclic(agent_dependencies)) =>
        \A a \in Range(requested_agents) :
            \A d \in Range(DictGet(agent_dependencies, a)) \cap Range(requested_agents) :
                \A i \in LevelsOf(a), j \in LevelsOf(d) : j < i

\* C2: for an acyclic dependency map, every requested worker occurs exactly
\* once in the returned levels and nothing else occurs in them.
C2_ExactlyOneLevel ==
    (cpc = "done" /\ Acyclic(agent_dependencies)) =>
        /\ \A a \in Range(requested_agents) : CountIn(Flatten(levels), a) = 1
        /\ Range(Flatten(levels)) \subseteq Range(requested_agents)

\* a plan was returned for a request with a repeated name and with a
\* dependency outside of the request
C2_Witness ==
    /\ cpc = "done"
    /\ Acyclic(agent_dependencies)
    /\ Len(requested_agents) = 3
    /\ Cardinality(Range(requested_agents)) = 2
    /\ \E a \in Range(requested_agents) :
         /\ Range(DictGet(agent_dependencies, a)) \cap Range(requested_agents) # {}
         /\ Range(DictGet(agent_dependencies, a)) \ Range(requested_agents) # {}

\* ---- properties of the resilience wrapper ----

\* C3 (as stated): run_with_resilience does not raise and returns a non-empty
\* string after at most retry_count invocations of the unit.
C3_NeverRaisesNonEmpty ==
    rpc = "returned" =>
        /\ ~ret.raised
        /\ ret.value # <<>>
        /\ invocations <= retry_count

\* C3 (amended): run_with_resilience does not raise and returns a string
\* after at most retry_count invocations of the unit; the string is the
\* output of the unit when an attempt succeeded (empty if that output is
\* empty) and a non-empty salvage or fallback text otherwise.
C3_NeverRaisesReturnsString ==
    rpc = "returned" =>
        /\ ~ret.raised
        /\ ret.kind \in {"success", "salvage", "fallback"}
        /\ invocations <= retry_count
        /\ (ret.kind = "success" => ret.value = unit_output)
        /\ (ret.kind # "success" => ret.value # <<>>)

\* every attempt of a call with a validation function failed and the call
\* came back with a fallback while the circuit was open
C3_Witness ==
    /\ rpc = "returned"
    /\ ret.kind = "fallback"
    /\ validation_fn = "fn"
    /\ invocations = retry_count
    /\ failed = retry_count
    /\ circuit_open

\* C4: a call whose unit failed k < retry_count attempts and then succeeded
\* returns the output of the unit as it is, with an empty error history and
\* a closed circuit.
C4_SuccessAfterFailures ==
    (rpc = "returned" /\ ret.kind = "success" /\ failed < retry_count) =>
        /\ ret.value = unit_output
        /\ error_history = <<>>
        /\ ~circuit_open

\* the unit raised on two attempts of a later call and then succeeded
C4_Witness ==
    /\ rpc = "returned"
    /\ ret.kind = "success"
    /\ ret.value # <<>>
    /\ validation_fn = "none"
    /\ failed = 2
    /\ calls >= 2

\* the last circuit_breaker_threshold failure records since the last success
\* are all inside the error window
RecentStreak ==
    /\ Len(streak) >= circuit_breaker_threshold
    /\ \A i \in (Len(streak) - circuit_breaker_threshold + 1)..Len(streak) :
           streak[i] > now - error_window

\* C5: a failure record that is at least the circuit_breaker_threshold-th
\* in a row without a success, all of them inside the error window, leaves
\* the circuit open.
C5_ThresholdOpens ==
    [][(Len(streak') = Len(streak) + 1 /\ RecentStreak') => circuit_open']_vars

\* the fifth failure record in a row has just opened the circuit
C5_Witness ==
    /\ circuit_open
    /\ Len(streak) = circuit_breaker_threshold
    /\ Len(error_history) = circuit_breaker_threshold
    /\ circuit_opened_at = now
    /\ rpc = "sleeping"

\* C6: a call made more than circuit_breaker_reset_time seconds after the
\* circuit opened invokes the unit.
C6_CallAfterResetTimeInvokes ==
    [][(/\ calls' = calls + 1
        /\ circuit_open
        /\ circuit_opened_at # None
        /\ now - circuit_opened_at > circuit_breaker_reset_time)
       => (rpc' = "running" /\ invocations' = 1)]_vars

\* C7: the unit is not invoked while the circuit is open and the reset time
\* has not elapsed.
C7_NoInvocationWhileOpen ==
    rpc = "running" =>
        ~(/\ circuit_open
          /\ circuit_opened_at # None
          /\ now - circuit_opened_at <= circuit_breaker_reset_time)

\* ---- properties of the prompt cache ----

\* the step is a get of the query the store before it was given
GetRightAfterStore ==
    /\ last.op = "store"
    /\ last'.op = "get"
    /\ last'.agent_name = last.agent_name
    /\ last'.query = last.query

\* the admission bar of the claims: success rate and average quality of at
\* least 0.8
MeetsBar(rate) ==
    /\ 10 * rate.success_sum >= 8 * rate.count
    /\ 10 * rate.quality_sum >= 80 * rate.count

\* C8: a store with success and quality of at least 0.8 that is the first
\* observation of its key, followed at once by a get of the same query,
\* makes the get return the stored artifact.
C8_StoreThenGetReturnsArtifact ==
    [][(GetRightAfterStore /\ last.first /\ last.success /\ last.quality >= 8)
       => last'.result = last.prompt]_vars

\* a store step changes the retrievable entries only when the statistics of
\* its key, with the observation counted, meet the bar
StoreWritesOnlyAboveBar ==
    (last'.op = "store" /\ stores' = stores + 1 /\ cache' # cache) =>
        MeetsBar(UpdatedRate(success_rates,
                             generate_key(last'.agent_name, last'.query),
                             last'.success, last'.quality))

\* C9 (as stated): store changes the retrievable entries only when the key
\* meets the bar, and a get right after a first observation with quality
\* below 0.8 returns nothing.
C9_AdmittedOnlyAboveBar ==
    [][/\ StoreWritesOnlyAboveBar
       /\ (GetRightAfterStore /\ last.first /\ last.quality < 8)
          => last'.result = None]_vars

\* C9 (amended): store changes the retrievable entries only when the key
\* meets the bar, and a get right after a first observation with quality
\* below 0.8 finds no entry of that key: it returns nothing, or the artifact
\* that the similarity fallback finds under another key of the same worker.
C9_AdmittedOnlyAboveBarOrSimilar ==
    [][/\ StoreWritesOnlyAboveBar
       /\ (GetRightAfterStore /\ last.first /\ last.quality < 8)
          => /\ last'.hit.key # generate_key(last.agent_name, last.query)
             /\ last'.result # last.prompt
             /\ \/ last'.result = None
                \/ /\ last'.path = "similar"
                   /\ last'.hit.agent_name = last.agent_name]_vars

\* a get right after a first observation of low quality came back with the
\* artifact of a similar query of the same worker
C9_Witness ==
    /\ last.op = "get"
    /\ last.path = "similar"
    /\ last.result # None
    /\ last.hit.key # generate_key(last.agent_name, last.query)
    /\ generate_key(last.agent_name, last.query) \in DOMAIN success_rates
    /\ success_rates[generate_key(last.agent_name, last.query)].count = 1
    /\ ~MeetsBar(success_rates[generate_key(last.agent_name, last.query)])

StoreOverCapacity ==
    /\ last'.op = "store"
    /\ stores' = stores + 1
    /\ Len(cache) = max_size
    /\ IndexOf(cache, generate_key(last'.agent_name, last'.query)) = 0
    /\ MeetsBar(UpdatedRate(success_rates,
                            generate_key(last'.agent_name, last'.query),
                            last'.success, last'.quality))

\* entries left when a cache of the given capacity holds capacity + 1
\* entries and _evict_least_accessed runs
LeftAfterEviction(capacity) ==
    LET n == capacity + 1
        gone == IF remove_count(capacity) < n THEN remove_count(capacity) ELSE n
    IN  n - gone

\* for every capacity up to MaxCapacity the eviction leaves between
\* capacity - floor(capacity * 0.1) and capacity entries
LeftWithinCapacity ==
    \A capacity \in 0..MaxCapacity :
        LeftAfterEviction(capacity) \in (capacity - capacity \div 10)..capacity

\* C11: a store that takes the cache to capacity + 1 entries leaves between
\* capacity - floor(capacity * 0.1) and capacity entries, and the cache never
\* holds more than max_size entries after a step.
C11_EvictionKeepsWithinCapacity ==
    [][/\ Len(cache') <= max_size
       /\ StoreOverCapacity =>
              Len(cache') \in (max_size - max_size \div 10)..max_size
       /\ LeftWithinCapacity]_vars

\* a store has just admitted an entry into a full cache and an entry that
\* had been read was kept while one was evicted
C11_Witness ==
    /\ last.op = "store"
    /\ last.first /\ last.success /\ last.quality >= 8
    /\ stores >= 2
    /\ Len(cache) = max_size
    /\ \E i \in 1..Len(cache) : CountGet(access_counts, cache[i].key) > 0
    /\ DOMAIN success_rates = {cache[i].key : i \in 1..Len(cache)}

\* ---- properties of the communication protocol ----

\* C19: set_global_context(k, v) followed at once by get_global_context(k)
\* returns v, for every key and value.
C19_SetThenGetReturnsValue ==
    [][(glast.op = "set" /\ glast'.op = "get" /\ glast'.key = glast.key)
       => glast'.result = [NoResult EXCEPT !.kind = "value",
                                           !.value = glast.value]]_vars

\* ---- further properties of the resilience wrapper ----

\* C20: the circuit goes from open to closed only when more than
\* circuit_breaker_reset_time seconds have passed since it was opened.
C20_ClosesOnlyAfterResetTime ==
    [][(circuit_open /\ ~circuit_open')
       => (/\ circuit_opened_at # None
           /\ now - circuit_opened_at > circuit_breaker_reset_time)]_vars

\* ---- properties of the websocket endpoint ----

\* the handlers that are inside research_with_streaming
InFlight == {w \in Websockets : handler[w] = "research"}

\* C15: at most one research request is in flight, and while one is,
\* is_processing is true (so that every research message is rejected).
C15_OneRequestAtATime ==
    /\ Cardinality(InFlight) <= 1
    /\ (InFlight # {} => is_processing)

\* lines 161-184: the workers of a level that get a task: those that
\* should_skip_agent lets through, without the Quality Auditor
LevelTasks(lvl) ==
    {lvl[i] : i \in {j \in 1..Len(lvl) : lvl[j] \notin skip_warned /\ lvl[j] # QA}}

\* position of a worker in the list of its level
PlaceIn(lvl, a) == CHOOSE i \in 1..Len(lvl) : lvl[i] = a

\* lines 157-186: the loop over the workers of the next level; a level
\* without tasks is passed over
StartLevel ==
    /\ opc = "levels"
    /\ level <= Len(execution_levels)
    /\ tasks = <<>>
    /\ IF LevelTasks(execution_levels[level]) = {}
       THEN /\ level' = level + 1
            /\ tasks' = tasks
       ELSE /\ level' = level
            /\ tasks' = [a \in LevelTasks(execution_levels[level]) |-> "pending"]
    /\ UNCHANGED <<use_enhanced, opc, research_query, mode, analysis,
                   agents_requested, execution_levels, seen, findings, events,
                   outcome, memories, analysis_prompts, skip_warned, researches>>
    /\ UNCHANGED <<websites_explored, websites>>
    /\ UNCHANGED <<varsPlan, varsRes, varsCache, varsProto, varsApp, varsTrend>>

\* lines 303-308, 351-356, 392-397: a task of the gather starts, in the
\* order of the list, and sends agent_start; line 400: the Fact Validator
\* reads the findings map as it is then
TaskStart(a) ==
    /\ opc = "levels"
    /\ a \in DOMAIN tasks
    /\ tasks[a] = "pending"
    /\ \A b \in DOMAIN tasks :
          PlaceIn(execution_levels[level], b) < PlaceIn(execution_levels[level], a)
            => tasks[b] # "pending"
    /\ tasks' = [tasks EXCEPT ![a] = "running"]
    /\ seen' = [w \in DOMAIN seen \cup {a} |->
                  IF w = a THEN DOMAIN findings ELSE seen[w]]
    /\ events' = Append(events, Event("agent_start", a))
    /\ UNCHANGED <<use_enhanced, opc, research_query, mode, analysis,
                   agents_requested, execution_levels, level, findings,
                   outcome, memories, analysis_prompts, skip_warned, researches>>
    /\ UNCHANGED <<websites_explored, websites>>
    /\ UNCHANGED <<varsPlan, varsRes, varsCache, varsProto, varsApp, varsTrend>>

\* the task of worker a raises: ", ".join(aspects) in WebHarvester.search
\* (web.py line 62) when key_aspects is null or holds numbers, and in
\* AgentHandoff.to_prompt_context (communication.py line 48) for the Domain
\* Specialist when key_aspects holds numbers
Raises(a) ==
    \/ a = WH /\ analysis.key_aspects \in {"null", "numbers"}
    \/ a = DS /\ analysis.key_aspects = "numbers"

\* what the task of a worker could return if WebHarvester.search returned
\* the dict that line 364 provides for
KindsWithDict(a) == IF a = DS THEN {"text", "fallback"}
                    ELSE IF a = WH THEN {"text", "error", "dict"} ELSE {"text"}

\* what the task of a worker can return: the Domain Specialist goes through
\* run_with_resilience, which gives the agent's text or, when every attempt
\* failed, its fallback text; the others call PresentationAgent.run, which
\* gives the text or, after an agent_error event, an error text (followed
\* for the Web Harvester only)
Kinds(a) == IF a = DS THEN {"text", "fallback"}
            ELSE IF a = WH THEN {"text", "error"} ELSE {"text"}

\* line 364: isinstance(result, dict)
IsDict(kind) == kind = "dict"

\* the exception leaves the task before its agent_complete
TaskRaises(a) ==
    /\ opc = "levels"
    /\ a \in DOMAIN tasks
    /\ tasks[a] = "running"
    /\ Raises(a)
    /\ tasks' = [tasks EXCEPT ![a] = "raised"]
    /\ UNCHANGED <<use_enhanced, opc, research_query, mode, analysis,
                   agents_requested, execution_levels, level, seen, findings,
                   events, outcome, memories, analysis_prompts, skip_warned,
                   researches>>
    /\ UNCHANGED <<websites_explored, websites>>
    /\ UNCHANGED <<varsPlan, varsRes, varsCache, varsProto, varsApp, varsTrend>>

\* lines 325-346, 360-387, 403-418: the task returns (name, text) after
\* its agent_complete
TaskReturns(a, kind) ==
    /\ opc = "levels"
    /\ a \in DOMAIN tasks
    /\ tasks[a] = "running"
    /\ ~Raises(a)
    /\ kind \in Kinds(a)
    /\ tasks' = [tasks EXCEPT ![a] = kind]
    /\ events' = IF kind = "error"
                 THEN events \o <<Event("agent_error", a), Event("agent_complete", a)>>
                 ELSE Append(events, Event("agent_complete", a))
    /\ websites_explored' = IF a = WH /\ IsDict(kind) THEN WebsitesOf(researches)
                            ELSE websites_explored
    /\ UNCHANGED websites
    /\ UNCHANGED <<use_enhanced, opc, research_query, mode, analysis,
                   agents_requested, execution_levels, level, seen, findings,
                   outcome, memories, analysis_prompts, skip_warned, researches>>
    /\ UNCHANGED <<varsPlan, varsRes, varsCache, varsProto, varsApp, varsTrend>>

\* line 188 without return_exceptions: the first exception leaves the gather
Propagates(ts) == \E a \in DOMAIN ts : ts[a] = "raised"

\* line 188: gather(..., return_exceptions=True) hands exceptions over as
\* results
GatherPropagates(ts) == FALSE

\* lines 188-204: the gather is over when every task is; the results that
\* are pairs are recorded
GatherDone ==
    /\ opc = "levels"
    /\ tasks # <<>>
    /\ \A a \in DOMAIN tasks : tasks[a] \notin {"pending", "running"}
    /\ IF GatherPropagates(tasks)
       THEN /\ opc' = "raised"
            /\ outcome' = [NoOutcome EXCEPT !.kind = "raised"]
            /\ UNCHANGED <<findings, level>>
       ELSE /\ findings' =
                 [w \in DOMAIN findings \cup {a \in DOMAIN tasks : tasks[a] # "raised"} |->
                     IF w \in DOMAIN tasks /\ tasks[w] # "raised" THEN tasks[w]
                     ELSE findings[w]]
            /\ level' = level + 1
            /\ UNCHANGED <<opc, outcome>>
    /\ tasks' = <<>>
    /\ UNCHANGED <<use_enhanced, research_query, mode, analysis,
                   agents_requested, execution_levels, seen, events,
                   memories, analysis_prompts, skip_warned, researches>>
    /\ UNCHANGED <<websites_explored, websites>>
    /\ UNCHANGED <<varsPlan, varsRes, varsCache, varsProto, varsApp, varsTrend>>

\* lines 206-298: synthesis, audit, the row of the memory store and the
\* result; in enhanced mode line 229 passes four arguments to
\* ImprovedPrincipalSynthesizer.synthesize_findings, which takes three
Synthesis ==
    /\ opc = "levels"
    /\ level > Len(execution_levels)
    /\ tasks = <<>>
    /\ IF use_enhanced
       THEN /\ events' = Append(events, Event("agent_start", Principal))
            /\ outcome' = [NoOutcome EXCEPT !.kind = "raised"]
            /\ opc' = "raised"
            /\ memories' = memories
       ELSE /\ events' = events
                 \o <<Event("agent_start", Principal), Event("agent_complete", Principal)>>
                 \o (IF mode = "expert" /\ \E i \in 1..Len(agents_requested) : agents_requested[i] = QA
                     THEN <<Event("agent_start", QA), Event("agent_complete", QA)>>
                     ELSE <<>>)
            /\ memories' = Append(memories,
                 [query |-> research_query, success |-> TRUE,
                  quality |-> IF mode = "expert" /\ \E i \in 1..Len(agents_requested) : agents_requested[i] = QA
                              THEN DictQuality ELSE NoQuality,
                  by |-> "research"])
            /\ outcome' = [kind |-> "returned", from_cache |-> FALSE,
                           findings |-> findings]
            /\ opc' = "returned"
    /\ websites' = [read |-> TRUE, value |-> websites_explored.value]
    /\ UNCHANGED websites_explored
    /\ UNCHANGED <<use_enhanced, research_query, mode, analysis,
                   agents_requested, execution_levels, level, tasks, seen,
                   findings, analysis_prompts, skip_warned, researches>>
    /\ UNCHANGED <<varsPlan, varsRes, varsCache, varsProto, varsApp, varsTrend>>

\* AgentMemorySystem.store_interaction called by another client of the store
StoreInteraction(row) ==
    /\ opc \in {"idle", "returned", "raised"}
    /\ Externals < MaxExternal
    /\ memories' = Append(memories, row)
    /\ UNCHANGED <<use_enhanced, opc, research_query, mode, analysis,
                   agents_requested, execution_levels, level, tasks, seen,
                   findings, events, outcome, analysis_prompts, skip_warned,
                   researches>>
    /\ UNCHANGED <<websites_explored, websites>>
    /\ UNCHANGED <<varsPlan, varsRes, varsCache, varsProto, varsApp, varsTrend>>

\* AgentCommunicationProtocol.agent_handoff called with a handoff to worker a
\* that has a warning with "skip"
agent_handoff(a) ==
    /\ opc \in {"idle", "returned", "raised"}
    /\ a \notin skip_warned
    /\ Externals < MaxExternal
    /\ skip_warned' = skip_warned \cup {a}
    /\ UNCHANGED <<use_enhanced, opc, research_query, mode, analysis,
                   agents_requested, execution_levels, level, tasks, seen,
                   findings, events, outcome, memories, analysis_prompts,
                   researches>>
    /\ UNCHANGED <<websites_explored, websites>>
    /\ UNCHANGED <<varsPlan, varsRes, varsCache, varsProto, varsApp, varsTrend>>

NextOrch ==
    \/ \E q \in OrchQueries, m \in Modes : research(q, m)
    \/ AnalysisFromCachedPrompt
    \/ \E an \in Analyses : Analysis(an)
    \/ StartLevel
    \/ \E a \in {DS, WH, FV} : TaskStart(a)
    \/ \E a \in {DS, WH} : TaskRaises(a)
    \/ \E a \in {DS, WH, FV} : \E kind \in Kinds(a) : TaskReturns(a, kind)
    \/ GatherDone
    \/ Synthesis
    \/ \E row \in ExternalRows : StoreInteraction(row)
    \/ agent_handoff(WH)

InitOrch ==
    InitPlanVars /\ ResStart([role |-> "orchestrator", timeout |-> 360]) /\ CacheStart
    /\ ProtoStart /\ AppStart /\ TrendStart
    /\ \E enhanced \in BOOLEAN : OrchStartWith(enhanced)

SpecOrch == InitOrch /\ [][NextOrch]_vars

\* ------------------------------------------------------------------------
\* Properties of ProductionOrchestrator.research
\* ------------------------------------------------------------------------
Requested(a) == \E i \in 1..Len(agents_requested) : agents_requested[i] = a

\* C12: when research returns from a request in which the Domain Specialist
\* failed all of its attempts (its task came back with the fallback text),
\* the Web Harvester succeeded and the Fact Validator, which depends on
\* both, was requested, the findings map returned has the Web Harvester and
\* the Fact Validator and has no entry for the Domain Specialist
C12_FailedWorkerLeftOut ==
    (/\ outcome.kind = "returned"
     /\ ~outcome.from_cache
     /\ Requested(FV)
     /\ DS \in DOMAIN findings /\ findings[DS] = "fallback"
     /\ WH \in DOMAIN findings /\ findings[WH] = "text")
    => (/\ FV \in DOMAIN outcome.findings
        /\ WH \in DOMAIN outcome.findings
        /\ DS \notin DOMAIN outcome.findings)

\* a worker whose task sent agent_start and left without agent_complete
Failed(a) ==
    /\ \E i \in 1..Len(events) : events[i] = Event("agent_start", a)
    /\ ~\E i \in 1..Len(events) : events[i] = Event("agent_complete", a)

\* C13: a task that raises inside a level aborts nothing: when the gather of
\* a level with a failed task is over, every sibling task has run to its end,
\* every sibling that returned has its finding in the findings map, and the
\* loop goes on with the next level; and a call in which a worker task
\* failed ends only in or after the synthesis step
C13_FailureIsCollected ==
    [][/\ (/\ opc = "levels"
           /\ tasks # <<>> /\ tasks' = <<>>
           /\ \E a \in DOMAIN tasks : tasks[a] = "raised")
          => (/\ \A b \in DOMAIN tasks : tasks[b] \notin {"pending", "running"}
              /\ \A b \in DOMAIN tasks :
                    tasks[b] # "raised"
                      => b \in DOMAIN findings' /\ findings'[b] = tasks[b]
              /\ opc' = "levels"
              /\ level' = level + 1)
       /\ (/\ opc = "levels" /\ opc' \in {"returned", "raised"}
           /\ \E a \in {DS, WH, FV} : Failed(a))
          => (/\ level > Len(execution_levels)
              /\ Len(events') > Len(events)
              /\ events'[Len(events) + 1] = Event("agent_start", Principal))]_vars

\* a call returned in which the Web Harvester raised and the finding of the
\* Domain Specialist, its sibling, was recorded
C13_Witness ==
    /\ outcome.kind = "returned"
    /\ ~outcome.from_cache
    /\ Failed(WH)
    /\ DS \in DOMAIN outcome.findings
    /\ WH \notin DOMAIN outcome.findings

\* C14: research always returns a result to its caller and never lets an
\* exception out, whatever the mode, the outcomes of the steps and the
\* states of the prompt cache and the memory store: a call that is over has
\* returned
C14_ResearchAlwaysReturns ==
    /\ opc # "raised"
    /\ outcome.kind # "raised"

\* the workers a depends on (lines 57-60) that have a task in this call
TaskedDependencies(a) ==
    IF a \in DOMAIN OrchDependencies
    THEN {OrchDependencies[a][i] : i \in 1..Len(OrchDependencies[a])}
         \cap {b \in {DS, WH, FV} : Requested(b) /\ b \notin skip_warned}
    ELSE {}

C17_StartCompletePairs ==
    /\ opc \in {"analysis", "levels"}
         => \A a \in skip_warned :
               ~\E i \in 1..Len(events) : events[i].agent = a
    /\ opc \in {"returned", "raised"}
         => \A a \in {DS, WH, FV, QA} :
               \A i \in 1..Len(events) :
                  events[i] = Event("agent_start", a)
                    => \E j \in (i + 1)..Len(events) :
                          events[j] \in {Event("agent_complete", a),
                                         Event("agent_error", a)}

\* the admission bar for a recorded outcome: success, and a quality of at
\* least 0.8
MeetsMemoryBar(row) ==
    /\ row.success
    /\ row.quality.kind = "number"
    /\ row.quality.tenths >= 8

\* the outcome that the last research call recorded (0 if none)
LastRecorded ==
    IF \E i \in 1..Len(memories) : memories[i].by = "research"
    THEN CHOOSE i \in 1..Len(memories) :
           /\ memories[i].by = "research"
           /\ \A j \in 1..Len(memories) : memories[j].by = "research" => j <= i
    ELSE 0

\* a research call of query q that comes right after a research call of
\* the same query that recorded its outcome, and is served from the cache
SecondCallHit ==
    /\ researches' = researches + 1
    /\ outcome.kind = "returned" /\ ~outcome.from_cache
    /\ research_query' = research_query
    /\ outcome'.from_cache

C21_EveryFailureIsRecorded ==
    [][failed' = failed + 1
         => \E k \in 0..Len(error_history) :
               error_history' =
                   SubSeq(Append(error_history, now), k + 1, Len(error_history) + 1)]_vars

\* the circuit was open, _is_circuit_open has closed it for a trial (the
\* records that opened it are still in the history) and agent.run is awaited
TrialRunning ==
    /\ rpc = "running"
    /\ ~circuit_open
    /\ Len(error_history) >= circuit_breaker_threshold

\* C22: once the reset time has passed on an open circuit exactly one trial
\* invocation is allowed: if it fails, the circuit is open again and the call
\* is over, with no further invocation of the unit
C22_OneTrialThenReopen ==
    [][(TrialRunning /\ failed' = failed + 1)
         => (/\ circuit_open'
             /\ rpc' = "returned"
             /\ invocations' = invocations)]_vars

\* C26: when run_with_resilience returns, by whatever path, the timeout of
\* the wrapped agent is what it was before the call: the value saved at line
\* 35 when the loop was entered, the present value when the circuit breaker
\* answers at line 33
C26_TimeoutRestoredOnReturn ==
    [][(rpc' = "returned" /\ (rpc # "returned" \/ calls' = calls + 1))
         => agent'.timeout = IF calls' = calls + 1 THEN agent.timeout
                             ELSE original_timeout]_vars

\* C23: calculate_execution_order terminates, whatever the dependency map
\* (a cycle or a self-dependency among the requested workers included):
\* the loop "while stack" is deterministic, so it ends iff every iteration
\* that finds the stack non-empty takes at least one worker off it
C23_GroupingLoopTerminates ==
    (cpc = "grouping" /\ stack # <<>>)
      => Len(LevelPass(stack, 1, graph, requested_agents,
                       [level |-> <<>>, stack |-> stack,
                        positioned |-> positioned]).stack) < Len(stack)

\* ------------------------------------------------------------------------
\* C24: the conversation log of the hub is bounded: after any sequence of
\* agent_handoff calls conversation_history holds at most MaxRetained audit
\* entries, namely the most recent ones.  MaxRetained is the number of
\* entries the hub keeps in its other log, agent_insights.
\* ------------------------------------------------------------------------
MaxRetained == 100

C24_HistoryIsBounded ==
    /\ Len(conversation_history) <= MaxRetained
    /\ \A i \in 1..Len(conversation_history) - 1 :
          conversation_history[i + 1].timestamp
              = conversation_history[i].timestamp + 1

\* ------------------------------------------------------------------------
\* C25: the trend reported for a worker, by either function, is
\* insufficient_data when fewer than 5 executions are recorded; otherwise it
\* compares the success rate of the most recent 5 executions with that of
\* the up-to-5 executions that precede them: improving when recent exceeds
\* prior by more than 0.1, degrading when recent is lower by more than 0.1,
\* stable otherwise.  With exactly 5 executions nothing precedes the recent
\* ones and any of the three outcomes is accepted.
\* ------------------------------------------------------------------------
Preceding(history) ==
    SubSeq(history,
           IF Len(history) >= 10 THEN Len(history) - 9 ELSE 1,
           Len(history) - 5)

TrendInClaim(history) ==
    IF Len(history) < 5 THEN {"insufficient_data"}
    ELSE LET recent == SubSeq(history, Len(history) - 4, Len(history))
             prior == Preceding(history)
         IN  IF prior = <<>> THEN {"improving", "degrading", "stable"}
             ELSE IF 10 * Successes(recent) * Len(prior)
                        > 50 * Successes(prior) + 5 * Len(prior)
                  THEN {"improving"}
                  ELSE IF 10 * Successes(recent) * Len(prior)
                             < 50 * Successes(prior) - 5 * Len(prior)
                       THEN {"degrading"}
                       ELSE {"stable"}

C25_TrendAsDescribed ==
    tlast.fn # "none" => tlast.trend \in TrendInClaim(execution_history)

\* ------------------------------------------------------------------------
\* C27: in every state reachable by store and get calls, every entry of the
\* cache belongs to a key whose current running success rate and running
\* average quality are both at least 0.8, so that get never returns an
\* artifact for a key whose statistics are below the admission bar.
\* ------------------------------------------------------------------------
C27_EntriesMeetTheBar ==
    /\ \A i \in 1..Len(cache) :
          /\ cache[i].key \in DOMAIN success_rates
          /\ Admitted(success_rates[cache[i].key])
    /\ (last.op = "get" /\ last.hit # NoEntry)
          => (/\ last.hit.key \in DOMAIN success_rates
              /\ Admitted(success_rates[last.hit.key]))

\* ------------------------------------------------------------------------
\* C28: when a research request ends, in whatever way (it completes, the
\* research fails, the init or the completion message cannot be sent, the
\* client disconnects), is_processing is reset to false, so that a later
\* research message is accepted.
\* ------------------------------------------------------------------------
C28_FlagResetWhenRequestEnds ==
    [][\A w \in Websockets :
          (handler[w] = "research" /\ handler'[w] # "research")
             => ~is_processing']_vars

\* ------------------------------------------------------------------------
\* C29: the websites list handed to the synthesis step of a research call
\* holds only websites that the Web Harvester recorded during that same
\* call; a value an earlier request left in the global facts of the hub is
\* not used by a later request.
\* ------------------------------------------------------------------------
\* the websites the Web Harvester of the running call recorded
RecordedThisCall ==
    IF WH \in DOMAIN findings /\ IsDict(findings[WH]) THEN <<researches>> ELSE <<>>

FactValidatorStarts ==
    /\ FV \in DOMAIN tasks /\ FV \in DOMAIN tasks'
    /\ tasks[FV] = "pending"
    /\ tasks'[FV] = "running"

\* worker d had its task in a level the call has gathered already
GatheredBefore(d) ==
    \E j \in 1..(level - 1) : d \in Range(execution_levels[j])

C30_FactValidatorAfterBoth ==
    [][(/\ FactValidatorStarts
        /\ \A d \in {DS, WH, FV} : Requested(d) /\ d \notin skip_warned)
       => (/\ GatheredBefore(DS) /\ GatheredBefore(WH)
           /\ FV \in DOMAIN seen'
           /\ seen'[FV] \cap {DS, WH} = DOMAIN findings \cap {DS, WH})]_vars

====